---- MODULE Spec2Model ----
(***************************************************************************)
(* Model of the img-gen-arkiv job pipeline: the SQLite job store of        *)
(* prompt_generator.py, the generator and uploader threads and the         *)
(* coordinator of main.py (threaded mode), the single-threaded loop of     *)
(* main.py (legacy mode), and the upload call into arkiv_uploader.py.      *)
(***************************************************************************)
EXTENDS Integers, Sequences, FiniteSets, TLC

\* ------------------------------------------------------------------ bounds
\* prompts of the active theme in the restart specification (Spec)
NumPrompts == 2
\* process starts allowed in Spec
MaxRuns == 2
\* prompts of the active theme in the pipeline specification (SpecPipe)
PipePrompts == 6
\* process starts allowed in SpecPipe
PipeRuns == 1
\* rows of the store in the claim specification (SpecClaim)
ClaimRows == 3

\* the job whose generation fails on every attempt in SpecFail
FailingJob == 2

\* ------------------------------------------------------- program constants
\* main.py:57  queue.Queue(maxsize=UPLOAD_QUEUE_SIZE)
UPLOAD_QUEUE_SIZE == 5
\* main.py:197 passes five positional arguments to upload_image_to_arkiv
UploadCallArgs == 5
\* arkiv_uploader.py:30-35 declares four parameters
UploadMaxParams == 4

\* ---------------------------------------------------------------- values
\* the value of get_next_prompt when no row is pending
None == 0
\* a NULL filename column
NoFile == <<>>
\* a NULL / set completed_at column
NullTime == "NULL"
CURRENT_TIMESTAMP == "CURRENT_TIMESTAMP"

\* main.py:233  out_path = f"output/{prefix}_{image_id}.png"
OutPath(image_id) == <<"output", image_id>>

Statuses == {"pending", "in_progress", "generated", "completed"}

\* the two concurrent callers of the claim specification
Callers == {1, 2}

VARIABLES
    prompts,    \* generate_all_prompts(): the payload set of the active theme
    db,         \* table generations: db[id] is the row with that id
    proc,       \* the running process: "none", "threaded" or "legacy"
    runsLeft,   \* process starts still allowed (bound)
    arkiv,      \* the upload collaborator during this process: "ok" or "down"
    mainPc,     \* position of the main thread
    genPc,      \* position of generator_thread
    genId,      \* prompt_id held by the producer (generator_thread or legacy loop)
    uplPc,      \* position of uploader_thread
    uplItem,    \* GeneratedImage held by uploader_thread
    uplRes,     \* outcome of the try block of uploader_thread
    queue,      \* upload_queue
    unfinished, \* upload_queue.unfinished_tasks
    shutdown,   \* shutdown_event
    lastReset,  \* return value of the reconcile call, until the next statement
    startGen,   \* history: ids in status generated when this run reconciled
    produced,   \* history: ids generator_thread has generated in this run
    handed,     \* history: ids the consumer dequeued in this run
    tried,      \* history: ids for which upload_to_arkiv was ever called
    uploads,    \* history: successful collaborator invocations per id
    refBefore,  \* history: stored filename of the job when its upload was attempted
    seeded,     \* history: number of seed_database calls that have returned
    callPc,     \* claim specification: position of each caller
    callSel     \* claim specification: id each caller selected

vars == <<prompts, db, proc, runsLeft, arkiv, mainPc, genPc, genId, uplPc, uplItem,
          uplRes, queue, unfinished, shutdown, lastReset, startGen, produced,
          handed, tried, uploads, refBefore, seeded, callPc, callSel>>

\* ------------------------------------------------------------ the job store

Ids(d) == 1..Len(d)

\* prompt_generator.py:177-186  a new row: status DEFAULT 'pending', the rest NULL
NewRow(p) ==
    [prompt |-> p, status |-> "pending", filename |-> NoFile, completed_at |-> NullTime]

\* a mutation of InsertOrIgnore: plain INSERT into a table without UNIQUE
InsertAlways(d, p) == Append(d, NewRow(p))

\* prompt_generator.py:230-233  INSERT OR IGNORE on the UNIQUE prompt column
InsertOrIgnore(d, p) ==
    IF \E i \in Ids(d) : d[i].prompt = p THEN d ELSE Append(d, NewRow(p))

RECURSIVE InsertAll(_, _)
\* prompt_generator.py:228-235  the insert loop over the (shuffled) prompts
InsertAll(d, order) ==
    IF order = <<>> THEN d
    ELSE InsertAll(InsertOrIgnore(d, Head(order)), Tail(order))

RECURSIVE Ascending(_)
\* the elements of a set of numbers as a sequence, smallest first
Ascending(S) ==
    IF S = {} THEN <<>>
    ELSE LET m == CHOOSE x \in S : \A y \in S : x <= y
         IN <<m>> \o Ascending(S \ {m})

Stored(d, P) == {p \in P : \E i \in Ids(d) : d[i].prompt = p}

\* prompt_generator.py:218-221  random.shuffle(prompts): the orderings of the
\* payload list. Inserting a stored payload is ignored wherever it stands in the
\* list, so the orderings are enumerated up to the places of the stored payloads:
\* the stored ones first, then the others in every order.
Orders(d, P) ==
    LET new == Ascending(P \ Stored(d, P))
    IN {Ascending(Stored(d, P)) \o [i \in 1..Len(new) |-> new[perm[i]]] :
            perm \in Permutations(1..Len(new))}

\* prompt_generator.py:215-251
seed_database(d, order) == InsertAll(d, order)

PendingIds(d) == {i \in Ids(d) : d[i].status = "pending"}

\* a mutation of get_next_prompt: ORDER BY id DESC
get_next_prompt_desc(d) ==
    IF PendingIds(d) = {} THEN None
    ELSE CHOOSE i \in PendingIds(d) : \A j \in PendingIds(d) : i >= j

\* prompt_generator.py:254-271  SELECT ... WHERE status='pending' ORDER BY id LIMIT 1
get_next_prompt(d) ==
    IF PendingIds(d) = {} THEN None
    ELSE CHOOSE i \in PendingIds(d) : \A j \in PendingIds(d) : i <= j

\* UPDATE generations SET ... WHERE id = ?  (no row with that id: nothing changes)
UpdateRow(d, id, row) == IF id \in Ids(d) THEN [d EXCEPT ![id] = row] ELSE d

\* prompt_generator.py:274-284
mark_in_progress(d, id) ==
    IF id \in Ids(d) THEN UpdateRow(d, id, [d[id] EXCEPT !.status = "in_progress"]) ELSE d

\* prompt_generator.py:287-299
mark_completed(d, id, filename) ==
    IF id \in Ids(d)
    THEN UpdateRow(d, id, [d[id] EXCEPT !.status = "completed", !.filename = filename,
                                        !.completed_at = CURRENT_TIMESTAMP])
    ELSE d

\* prompt_generator.py:302-312
mark_failed(d, id) ==
    IF id \in Ids(d) THEN UpdateRow(d, id, [d[id] EXCEPT !.status = "pending"]) ELSE d

\* prompt_generator.py:372-382
mark_generated(d, id, filename) ==
    IF id \in Ids(d)
    THEN UpdateRow(d, id, [d[id] EXCEPT !.status = "generated", !.filename = filename])
    ELSE d

\* a mutation of ResetRows: interrupted rows are taken for finished generations
ResetRowsToGenerated(d) ==
    [i \in Ids(d) |->
        IF d[i].status = "in_progress" THEN [d[i] EXCEPT !.status = "generated"] ELSE d[i]]

\* a mutation of ResetRows: interrupted rows are left as they are
ResetRowsKept(d) == d

\* prompt_generator.py:356-358 and 427-429  UPDATE ... WHERE status='in_progress'
ResetRows(d) ==
    [i \in Ids(d) |->
        IF d[i].status = "in_progress" THEN [d[i] EXCEPT !.status = "pending"] ELSE d[i]]

CountStatus(d, s) == Cardinality({i \in Ids(d) : d[i].status = s})

\* prompt_generator.py:348-365  returns the number of rows reset
reset_in_progress(d) ==
    [db |-> ResetRows(d),
     ret |-> [gen_reset |-> CountStatus(d, "in_progress"), pending_uploads |-> 0]]

\* a mutation of reset_interrupted: rows waiting for upload are reset as well
reset_interrupted_all(d) ==
    [db |-> [i \in Ids(d) |->
                IF d[i].status \in {"in_progress", "generated"}
                THEN [d[i] EXCEPT !.status = "pending"] ELSE d[i]],
     ret |-> [gen_reset |-> CountStatus(d, "in_progress"),
              pending_uploads |-> CountStatus(d, "generated")]]

\* prompt_generator.py:416-444  returns gen_reset and pending_uploads
reset_interrupted(d) ==
    [db |-> ResetRows(d),
     ret |-> [gen_reset |-> CountStatus(d, "in_progress"),
              pending_uploads |-> CountStatus(ResetRows(d), "generated")]]

\* prompt_generator.py:315-345
get_stats(d) ==
    [total |-> Len(d),
     pending |-> CountStatus(d, "pending"),
     completed |-> CountStatus(d, "completed"),
     in_progress |-> CountStatus(d, "in_progress"),
     generated |-> CountStatus(d, "generated")]

\* ------------------------------------------------------- upload collaborator

\* a mutation of upload_to_arkiv: the call matches the declared parameters and
\* reaches the collaborator
upload_to_arkiv_reaching(collab) == IF collab = "ok" THEN "ok" ELSE "raise"

\* main.py:179-200 calling arkiv_uploader.py:30-67: the call raises TypeError when
\* it passes more positional arguments than upload_image_to_arkiv declares, and
\* otherwise returns what the collaborator (create_entity) answers
upload_to_arkiv(collab) ==
    IF UploadCallArgs > UploadMaxParams THEN "raise"
    ELSE IF collab = "ok" THEN "ok" ELSE "raise"

\* ------------------------------------------------------------ process memory

NoItem == [prompt_id |-> None, image_path |-> NoFile]

\* main.py:64-70  GeneratedImage(prompt_id, prompt_text, image_path, image_id)
GeneratedImage(prompt_id, image_path) == [prompt_id |-> prompt_id, image_path |-> image_path]

NoReset == [gen_reset |-> 0, pending_uploads |-> 0]

\* the state of a process that is not running: module globals of main.py:74-77
MemoryOff ==
    /\ mainPc' = "off"
    /\ genPc' = "off"
    /\ genId' = None
    /\ uplPc' = "off"
    /\ uplItem' = NoItem
    /\ uplRes' = "none"
    /\ queue' = <<>>
    /\ unfinished' = 0
    /\ shutdown' = FALSE
    /\ lastReset' = NoReset
    /\ startGen' = {}
    /\ produced' = {}
    /\ handed' = {}
    /\ refBefore' = NoFile

InitMemory ==
    /\ proc = "none"
    /\ arkiv = "ok"
    /\ mainPc = "off"
    /\ genPc = "off"
    /\ genId = None
    /\ uplPc = "off"
    /\ uplItem = NoItem
    /\ uplRes = "none"
    /\ queue = <<>>
    /\ unfinished = 0
    /\ shutdown = FALSE
    /\ lastReset = NoReset
    /\ startGen = {}
    /\ produced = {}
    /\ handed = {}
    /\ tried = {}
    /\ refBefore = NoFile
    /\ seeded = 0

StoreVars == <<prompts, db>>
ClaimVars == <<callPc, callSel>>
GenVars == <<genPc, genId>>
UplVars == <<uplPc, uplItem, uplRes>>
QueueVars == <<queue, unfinished>>
HistVars == <<startGen, produced, handed, tried, uploads, refBefore, seeded, lastReset>>

\* ----------------------------------------------------------- process start

\* main.py:514-523  python main.py [--legacy]; PRIVATE_KEY / RPC_URL and the
\* collaborator's availability are fixed for the life of the process
StartProcess ==
    /\ proc = "none"
    /\ runsLeft > 0
    /\ runsLeft' = runsLeft - 1
    /\ proc' \in {"threaded", "legacy"}
    /\ arkiv' \in {"ok", "down"}
    /\ mainPc' = "seed"
    /\ UNCHANGED <<StoreVars, ClaimVars, GenVars, UplVars, QueueVars, shutdown, HistVars>>

\* main.py:379 and 449  seed_database(shuffle=True)
Seed ==
    /\ proc # "none"
    /\ mainPc = "seed"
    /\ \E order \in Orders(db, prompts) : db' = seed_database(db, order)
    /\ seeded' = seeded + 1
    /\ mainPc' = "reconcile"
    /\ UNCHANGED <<prompts, proc, runsLeft, arkiv, ClaimVars, GenVars, UplVars, QueueVars,
                   shutdown, lastReset, startGen, produced, handed, tried, uploads,
                   refBefore>>

\* main.py:382  reset_interrupted()
Reconcile ==
    /\ proc = "threaded"
    /\ mainPc = "reconcile"
    /\ db' = reset_interrupted(db).db
    /\ lastReset' = reset_interrupted(db).ret
    /\ startGen' = {i \in Ids(db) : db[i].status = "generated"}
    /\ mainPc' = "start"
    /\ UNCHANGED <<prompts, proc, runsLeft, arkiv, ClaimVars, GenVars, UplVars, QueueVars,
                   shutdown, produced, handed, tried, uploads, refBefore, seeded>>

\* main.py:393-401  shutdown_event.clear(); gen_thread.start(); upl_thread.start()
StartThreads ==
    /\ proc = "threaded"
    /\ mainPc = "start"
    /\ shutdown' = FALSE
    /\ genPc' = "g_check"
    /\ uplPc' = "u_check"
    /\ mainPc' = "join_gen"
    /\ lastReset' = NoReset
    /\ UNCHANGED <<StoreVars, proc, runsLeft, arkiv, ClaimVars, genId, uplItem, uplRes,
                   QueueVars, startGen, produced, handed, tried, uploads, refBefore,
                   seeded>>

\* main.py:405  gen_thread.join()
JoinGenerator ==
    /\ proc = "threaded"
    /\ mainPc = "join_gen"
    /\ genPc = "g_done"
    /\ mainPc' = "join_queue"
    /\ UNCHANGED <<StoreVars, proc, runsLeft, arkiv, ClaimVars, GenVars, UplVars,
                   QueueVars, shutdown, HistVars>>

\* a mutation of QueueJoined: the coordinator does not wait for the queue
QueueJoinSkipped(n) == TRUE

\* main.py:410  upload_queue.join() returns when unfinished_tasks is 0
QueueJoined(n) == n = 0

\* main.py:408-410  upload_queue.join(): returns when unfinished_tasks is 0
JoinQueue ==
    /\ proc = "threaded"
    /\ mainPc = "join_queue"
    /\ QueueJoined(unfinished)
    /\ mainPc' = "set_shutdown"
    /\ UNCHANGED <<StoreVars, proc, runsLeft, arkiv, ClaimVars, GenVars, UplVars,
                   QueueVars, shutdown, HistVars>>

\* main.py:413  shutdown_event.set()
SetShutdown ==
    /\ proc = "threaded"
    /\ mainPc = "set_shutdown"
    /\ shutdown' = TRUE
    /\ mainPc' = "join_upl"
    /\ UNCHANGED <<StoreVars, proc, runsLeft, arkiv, ClaimVars, GenVars, UplVars,
                   QueueVars, HistVars>>

\* main.py:415-416  upl_thread.join(timeout=10): returns when the thread has
\* ended or the timeout has passed
JoinUploader ==
    /\ proc = "threaded"
    /\ mainPc = "join_upl"
    /\ mainPc' = "final"
    /\ UNCHANGED <<StoreVars, proc, runsLeft, arkiv, ClaimVars, GenVars, UplVars,
                   QueueVars, shutdown, HistVars>>

\* main.py:418-420  KeyboardInterrupt anywhere in the try block of the coordinator
Interrupt ==
    /\ proc = "threaded"
    /\ mainPc \in {"join_gen", "join_queue", "set_shutdown", "join_upl"}
    /\ shutdown' = TRUE
    /\ mainPc' = "int_join"
    /\ UNCHANGED <<StoreVars, proc, runsLeft, arkiv, ClaimVars, GenVars, UplVars,
                   QueueVars, HistVars>>

\* main.py:423-427  gen_thread.join(timeout=5); upl_thread.join(timeout=10)
InterruptJoin ==
    /\ proc = "threaded"
    /\ mainPc = "int_join"
    /\ mainPc' = "final_int"
    /\ UNCHANGED <<StoreVars, proc, runsLeft, arkiv, ClaimVars, GenVars, UplVars,
                   QueueVars, shutdown, HistVars>>

ThreadsEnded ==
    \/ proc = "legacy"
    \/ proc = "threaded" /\ genPc = "g_done" /\ uplPc = "u_done"

\* main.py:429-438 and 509-511  final stats; the interpreter then waits for the
\* (non-daemon) worker threads and the process ends
Exit ==
    /\ proc # "none"
    /\ mainPc \in {"final", "final_int"}
    /\ ThreadsEnded
    /\ proc' = "none"
    /\ MemoryOff
    /\ UNCHANGED <<StoreVars, runsLeft, arkiv, ClaimVars, tried, uploads, seeded>>

\* the process is killed (or dies of an uncaught exception) at any point: the
\* store keeps what was committed, everything in memory is lost
Crash ==
    /\ proc # "none"
    /\ proc' = "none"
    /\ MemoryOff
    /\ UNCHANGED <<StoreVars, runsLeft, arkiv, ClaimVars, tried, uploads, seeded>>

\* --------------------------------------------------------- generator_thread

Threaded == proc = "threaded"

\* a mutation of ProducerContinues: while True
ProducerIgnoresFlag(flag) == TRUE

\* main.py:274  the loop condition: not shutdown_event.is_set()
ProducerContinues(flag) == ~flag

\* main.py:274  while not shutdown_event.is_set()
GenCheck ==
    /\ Threaded
    /\ genPc = "g_check"
    /\ genPc' = IF ProducerContinues(shutdown) THEN "g_claim" ELSE "g_done"
    /\ UNCHANGED <<StoreVars, proc, runsLeft, arkiv, mainPc, ClaimVars, genId, UplVars,
                   QueueVars, shutdown, HistVars>>

\* main.py:276-285  item = get_next_prompt(); break when there is none
GenClaim ==
    /\ Threaded
    /\ genPc = "g_claim"
    /\ genId' = get_next_prompt(db)
    /\ genPc' = IF get_next_prompt(db) = None THEN "g_done" ELSE "g_mark"
    /\ UNCHANGED <<StoreVars, proc, runsLeft, arkiv, mainPc, ClaimVars, UplVars,
                   QueueVars, shutdown, HistVars>>

\* main.py:287-292  get_stats(); mark_in_progress(prompt_id)
GenMark ==
    /\ Threaded
    /\ genPc = "g_mark"
    /\ db' = mark_in_progress(db, genId)
    /\ genPc' = "g_gen"
    /\ UNCHANGED <<prompts, proc, runsLeft, arkiv, mainPc, ClaimVars, genId, UplVars,
                   QueueVars, shutdown, HistVars>>

\* main.py:296  generate_image_only returns the output path
GenSucceed ==
    /\ Threaded
    /\ genPc = "g_gen"
    /\ produced' = produced \cup {genId}
    /\ genPc' = "g_markgen"
    /\ UNCHANGED <<StoreVars, proc, runsLeft, arkiv, mainPc, ClaimVars, genId, UplVars,
                   QueueVars, shutdown, lastReset, startGen, handed, tried, uploads,
                   refBefore, seeded>>

\* a mutation of GenerationFailed: the handler leaves the store alone
GenerationFailedDropped(d, id) == d

\* main.py:315-317  except Exception: print, mark_failed(prompt_id)
GenerationFailed(d, id) == mark_failed(d, id)

\* main.py:296 raising (timeout, network error, no images), caught at 315-317:
\* mark_failed(prompt_id), then the next iteration
GenFail ==
    /\ Threaded
    /\ genPc = "g_gen"
    /\ db' = GenerationFailed(db, genId)
    /\ genPc' = "g_check"
    /\ UNCHANGED <<prompts, proc, runsLeft, arkiv, mainPc, ClaimVars, genId, UplVars,
                   QueueVars, shutdown, HistVars>>

\* a mutation of ProducerMark: the store is not written before the enqueue
ProducerMarkDeferred(d, id, path) == d

\* main.py:298-299  "Mark as generated in DB", ahead of "Queue for upload" (301-302)
ProducerMark(d, id, path) == mark_generated(d, id, path)

\* main.py:299  mark_generated(prompt_id, output_path)
GenMarkGenerated ==
    /\ Threaded
    /\ genPc = "g_markgen"
    /\ db' = ProducerMark(db, genId, OutPath(genId))
    /\ genPc' = "g_put"
    /\ UNCHANGED <<prompts, proc, runsLeft, arkiv, mainPc, ClaimVars, genId, UplVars,
                   QueueVars, shutdown, HistVars>>

\* a mutation of QueueHasRoom: a queue without maxsize
QueueUnbounded(q) == TRUE

\* queue.Queue(maxsize=UPLOAD_QUEUE_SIZE).put blocks while the queue is full
QueueHasRoom(q) == Len(q) < UPLOAD_QUEUE_SIZE

\* main.py:302-309  upload_queue.put(GeneratedImage(...)), blocking
GenPut ==
    /\ Threaded
    /\ genPc = "g_put"
    /\ QueueHasRoom(queue)
    /\ queue' = Append(queue, GeneratedImage(genId, OutPath(genId)))
    /\ unfinished' = unfinished + 1
    /\ genId' = None
    /\ genPc' = "g_check"
    /\ UNCHANGED <<StoreVars, proc, runsLeft, arkiv, mainPc, ClaimVars, UplVars,
                   shutdown, HistVars>>

\* ---------------------------------------------------------- uploader_thread

\* main.py:331  while not shutdown_event.is_set() or not upload_queue.empty()
UplCheck ==
    /\ Threaded
    /\ uplPc = "u_check"
    /\ uplPc' = IF shutdown /\ queue = <<>> THEN "u_done" ELSE "u_get"
    /\ UNCHANGED <<StoreVars, proc, runsLeft, arkiv, mainPc, ClaimVars, GenVars, uplItem,
                   uplRes, QueueVars, shutdown, HistVars>>

\* a mutation of Dequeue: a LIFO queue
DequeueLast(q) == [item |-> q[Len(q)], rest |-> SubSeq(q, 1, Len(q) - 1)]

\* main.py:74 and 334  queue.Queue.get: the oldest item leaves the queue
Dequeue(q) == [item |-> Head(q), rest |-> Tail(q)]

\* main.py:334  item = upload_queue.get(timeout=1.0)
UplGet ==
    /\ Threaded
    /\ uplPc = "u_get"
    /\ queue # <<>>
    /\ uplItem' = Dequeue(queue).item
    /\ queue' = Dequeue(queue).rest
    /\ handed' = handed \cup {Dequeue(queue).item.prompt_id}
    /\ uplPc' = "u_try"
    /\ UNCHANGED <<StoreVars, proc, runsLeft, arkiv, mainPc, ClaimVars, GenVars, uplRes,
                   unfinished, shutdown, lastReset, startGen, produced, tried, uploads,
                   refBefore, seeded>>

\* a mutation of GetTimesOut: get() without a timeout
GetBlocksForever(q) == FALSE

\* main.py:334-335  get(timeout=1.0) raises queue.Empty when the queue stays empty
GetTimesOut(q) == q = <<>>

\* main.py:335-336  queue.Empty after the poll timeout: continue
UplGetTimeout ==
    /\ Threaded
    /\ uplPc = "u_get"
    /\ GetTimesOut(queue)
    /\ uplPc' = "u_check"
    /\ UNCHANGED <<StoreVars, proc, runsLeft, arkiv, mainPc, ClaimVars, GenVars, uplItem,
                   uplRes, QueueVars, shutdown, HistVars>>

\* main.py:340-344  the artifact is larger than MAX_IMAGE_SIZE_KB: no upload
UplSkip ==
    /\ Threaded
    /\ uplPc = "u_try"
    /\ uplRes' = "skip"
    /\ uplPc' = "u_mark"
    /\ UNCHANGED <<StoreVars, proc, runsLeft, arkiv, mainPc, ClaimVars, GenVars, uplItem,
                   QueueVars, shutdown, HistVars>>

\* main.py:345-348  the artifact is within the threshold: upload_to_arkiv(...)
UplUpload ==
    /\ Threaded
    /\ uplPc = "u_try"
    /\ uplRes' = upload_to_arkiv(arkiv)
    /\ tried' = tried \cup {uplItem.prompt_id}
    /\ uploads' = [uploads EXCEPT ![uplItem.prompt_id] =
                       IF upload_to_arkiv(arkiv) = "ok" THEN @ + 1 ELSE @]
    /\ refBefore' = db[uplItem.prompt_id].filename
    /\ uplPc' = "u_mark"
    /\ UNCHANGED <<StoreVars, proc, runsLeft, arkiv, mainPc, ClaimVars, GenVars, uplItem,
                   QueueVars, shutdown, lastReset, startGen, produced, handed, seeded>>

\* a mutation of UploadFailed: the job is sent back to pending
UploadFailedToPending(d, item) == mark_failed(d, item.prompt_id)

\* main.py:352-355  except Exception: mark_generated(item.prompt_id, item.image_path)
UploadFailed(d, item) == mark_generated(d, item.prompt_id, item.image_path)

\* a mutation of SkippedUpload: a skipped job is left as it was
SkippedUploadLeftGenerated(d, item) == d

\* main.py:342-344  image too large: print, mark_completed(item.prompt_id,
\* item.image_path)
SkippedUpload(d, item) == mark_completed(d, item.prompt_id, item.image_path)

\* main.py:344 and 349 mark_completed(item.prompt_id, item.image_path) after a skip
\* or a successful upload; main.py:352-355 after an exception
UplMark ==
    /\ Threaded
    /\ uplPc = "u_mark"
    /\ db' = IF uplRes = "raise" THEN UploadFailed(db, uplItem)
             ELSE IF uplRes = "skip" THEN SkippedUpload(db, uplItem)
             ELSE mark_completed(db, uplItem.prompt_id, uplItem.image_path)
    /\ uplPc' = "u_ack"
    /\ UNCHANGED <<prompts, proc, runsLeft, arkiv, mainPc, ClaimVars, GenVars, uplItem,
                   uplRes, QueueVars, shutdown, HistVars>>

\* a mutation of task_done: the finally clause is missing
task_done_skipped(n) == n

\* main.py:358  upload_queue.task_done(): one unfinished task less
task_done(n) == n - 1

\* main.py:357-358  finally: upload_queue.task_done()
UplAck ==
    /\ Threaded
    /\ uplPc = "u_ack"
    /\ unfinished' = task_done(unfinished)
    /\ uplItem' = NoItem
    /\ uplRes' = "none"
    /\ refBefore' = NoFile
    /\ uplPc' = "u_check"
    /\ UNCHANGED <<StoreVars, proc, runsLeft, arkiv, mainPc, ClaimVars, GenVars, queue,
                   shutdown, lastReset, startGen, produced, handed, tried, uploads,
                   seeded>>

\* ------------------------------------------- legacy loop (run_endless_generator)

Legacy == proc = "legacy"

\* main.py:452  reset_in_progress()
LegacyReset ==
    /\ Legacy
    /\ mainPc = "reconcile"
    /\ db' = reset_in_progress(db).db
    /\ lastReset' = reset_in_progress(db).ret
    /\ startGen' = {i \in Ids(db) : db[i].status = "generated"}
    /\ mainPc' = "l_claim"
    /\ UNCHANGED <<prompts, proc, runsLeft, arkiv, ClaimVars, GenVars, UplVars, QueueVars,
                   shutdown, produced, handed, tried, uploads, refBefore, seeded>>

\* main.py:461-473  item = get_next_prompt(); break when there is none
LegacyClaim ==
    /\ Legacy
    /\ mainPc = "l_claim"
    /\ genId' = get_next_prompt(db)
    /\ mainPc' = IF get_next_prompt(db) = None THEN "final" ELSE "l_mark"
    /\ lastReset' = NoReset
    /\ UNCHANGED <<StoreVars, proc, runsLeft, arkiv, ClaimVars, genPc, UplVars, QueueVars,
                   shutdown, startGen, produced, handed, tried, uploads, refBefore,
                   seeded>>

\* main.py:475-482  mark_in_progress(prompt_id)
LegacyMark ==
    /\ Legacy
    /\ mainPc = "l_mark"
    /\ db' = mark_in_progress(db, genId)
    /\ mainPc' = "l_gen"
    /\ UNCHANGED <<prompts, proc, runsLeft, arkiv, ClaimVars, GenVars, UplVars, QueueVars,
                   shutdown, HistVars>>

\* main.py:242  generate_image_only returns the output path
LegacyGenSucceed ==
    /\ Legacy
    /\ mainPc = "l_gen"
    /\ mainPc' = "l_upload"
    /\ UNCHANGED <<StoreVars, proc, runsLeft, arkiv, ClaimVars, GenVars, UplVars, QueueVars,
                   shutdown, HistVars>>

\* main.py:242 raising, caught at 500-507: mark_failed(prompt_id), sleep, next
\* iteration
LegacyGenFail ==
    /\ Legacy
    /\ mainPc = "l_gen"
    /\ db' = mark_failed(db, genId)
    /\ mainPc' = "l_claim"
    /\ UNCHANGED <<prompts, proc, runsLeft, arkiv, ClaimVars, GenVars, UplVars, QueueVars,
                   shutdown, HistVars>>

\* main.py:247-250  the image is larger than MAX_IMAGE_SIZE_KB: no upload
LegacySkip ==
    /\ Legacy
    /\ mainPc = "l_upload"
    /\ mainPc' = "l_complete"
    /\ UNCHANGED <<StoreVars, proc, runsLeft, arkiv, ClaimVars, GenVars, UplVars, QueueVars,
                   shutdown, HistVars>>

\* a mutation of AfterInlineUpload: the upload's exception reaches the loop's
\* handler of main.py:499-501
AfterInlineUploadPropagating(d, id, res) ==
    IF res = "raise" THEN [pc |-> "l_claim", db |-> mark_failed(d, id)]
    ELSE [pc |-> "l_complete", db |-> d]

\* main.py:252-256  try: upload_to_arkiv(...) except Exception: print; then
\* return out_path (258): whatever the upload did, the loop goes on to mark_completed
AfterInlineUpload(d, id, res) == [pc |-> "l_complete", db |-> d]

\* main.py:251-256  upload_to_arkiv(...); an Exception is printed and dropped
LegacyUpload ==
    /\ Legacy
    /\ mainPc = "l_upload"
    /\ tried' = tried \cup {genId}
    /\ uploads' = [uploads EXCEPT ![genId] =
                       IF upload_to_arkiv(arkiv) = "ok" THEN @ + 1 ELSE @]
    /\ mainPc' = AfterInlineUpload(db, genId, upload_to_arkiv(arkiv)).pc
    /\ db' = AfterInlineUpload(db, genId, upload_to_arkiv(arkiv)).db
    /\ UNCHANGED <<prompts, proc, runsLeft, arkiv, ClaimVars, GenVars, UplVars, QueueVars,
                   shutdown, lastReset, startGen, produced, handed, refBefore, seeded>>

\* main.py:489  mark_completed(prompt_id, output_path)
LegacyComplete ==
    /\ Legacy
    /\ mainPc = "l_complete"
    /\ db' = mark_completed(db, genId, OutPath(genId))
    /\ mainPc' = "l_print"
    /\ UNCHANGED <<prompts, proc, runsLeft, arkiv, ClaimVars, GenVars, UplVars, QueueVars,
                   shutdown, HistVars>>

\* main.py:491 and 505-507  print the success line, leave the try, sleep
LegacyNext ==
    /\ Legacy
    /\ mainPc = "l_print"
    /\ mainPc' = "l_claim"
    /\ UNCHANGED <<StoreVars, proc, runsLeft, arkiv, ClaimVars, GenVars, UplVars, QueueVars,
                   shutdown, HistVars>>

\* main.py:484-498  KeyboardInterrupt raised anywhere inside the try block (lines
\* 486-491): mark_failed(prompt_id), break
LegacyInterrupt ==
    /\ Legacy
    /\ mainPc \in {"l_gen", "l_upload", "l_complete", "l_print"}
    /\ db' = mark_failed(db, genId)
    /\ mainPc' = "final_int"
    /\ UNCHANGED <<prompts, proc, runsLeft, arkiv, ClaimVars, GenVars, UplVars, QueueVars,
                   shutdown, HistVars>>

\* ------------------------------------------- two concurrent callers of the claim

ProcessVars == <<proc, runsLeft, arkiv, mainPc, GenVars, UplVars, QueueVars, shutdown,
                 HistVars>>

\* main.py:276 / 463  a caller runs get_next_prompt()
CallerSelect(c) ==
    /\ callPc[c] = "select"
    /\ callSel' = [callSel EXCEPT ![c] = get_next_prompt(db)]
    /\ callPc' = [callPc EXCEPT ![c] = IF get_next_prompt(db) = None THEN "none" ELSE "mark"]
    /\ UNCHANGED <<StoreVars, ProcessVars>>

\* main.py:292 / 482  the caller runs mark_in_progress(prompt_id) and holds the job
CallerMark(c) ==
    /\ callPc[c] = "mark"
    /\ db' = mark_in_progress(db, callSel[c])
    /\ callPc' = [callPc EXCEPT ![c] = "holding"]
    /\ UNCHANGED <<prompts, callSel, ProcessVars>>

\* ---------------------------------------------------------- specifications

RECURSIVE Identity(_)
\* the prompts 1..n in creation order
Identity(n) == IF n = 0 THEN <<>> ELSE Append(Identity(n - 1), n)

NoCallers ==
    /\ callPc = [c \in Callers |-> "idle"]
    /\ callSel = [c \in Callers |-> None]

\* an empty store, no process running
Init ==
    /\ prompts = 1..NumPrompts
    /\ db = <<>>
    /\ runsLeft = MaxRuns
    /\ uploads = [i \in 1..NumPrompts |-> 0]
    /\ InitMemory
    /\ NoCallers

\* a store seeded by an earlier run, no process running
InitPipe ==
    /\ prompts = 1..PipePrompts
    /\ db = seed_database(<<>>, Identity(PipePrompts))
    /\ runsLeft = PipeRuns
    /\ uploads = [i \in 1..PipePrompts |-> 0]
    /\ InitMemory
    /\ NoCallers

\* a row of the store in a given status, as the pipeline leaves it
RowIn(p, s) ==
    [prompt |-> p, status |-> s,
     filename |-> IF s \in {"generated", "completed"} THEN OutPath(p) ELSE NoFile,
     completed_at |-> IF s = "completed" THEN CURRENT_TIMESTAMP ELSE NullTime]

\* a seeded store in any mix of statuses, two callers about to claim
InitClaim ==
    /\ prompts = 1..ClaimRows
    /\ \E st \in [1..ClaimRows -> Statuses] :
           db = [i \in 1..ClaimRows |-> RowIn(i, st[i])]
    /\ runsLeft = 0
    /\ uploads = [i \in 1..ClaimRows |-> 0]
    /\ InitMemory
    /\ callPc = [c \in Callers |-> "select"]
    /\ callSel = [c \in Callers |-> None]

Next ==
    \/ StartProcess
    \/ Seed
    \/ Reconcile
    \/ StartThreads
    \/ JoinGenerator
    \/ JoinQueue
    \/ SetShutdown
    \/ JoinUploader
    \/ Interrupt
    \/ InterruptJoin
    \/ Exit
    \/ Crash
    \/ GenCheck
    \/ GenClaim
    \/ GenMark
    \/ GenSucceed
    \/ GenFail
    \/ GenMarkGenerated
    \/ GenPut
    \/ UplCheck
    \/ UplGet
    \/ UplGetTimeout
    \/ UplSkip
    \/ UplUpload
    \/ UplMark
    \/ UplAck
    \/ LegacyReset
    \/ LegacyClaim
    \/ LegacyMark
    \/ LegacyGenSucceed
    \/ LegacyGenFail
    \/ LegacySkip
    \/ LegacyUpload
    \/ LegacyComplete
    \/ LegacyNext
    \/ LegacyInterrupt

NextClaim == \E c \in Callers : CallerSelect(c) \/ CallerMark(c)

Spec == Init /\ [][Next]_vars

SpecPipe == InitPipe /\ [][Next]_vars

SpecClaim == InitClaim /\ [][NextClaim]_vars

\* ------------------------------------------------ runs with fair scheduling

\* main.py:274-318  a step of generator_thread
ProducerStep ==
    \/ GenCheck
    \/ GenClaim
    \/ GenMark
    \/ GenSucceed
    \/ GenFail
    \/ GenMarkGenerated
    \/ GenPut

\* main.py:331-358  a step of uploader_thread
ConsumerStep ==
    \/ UplCheck
    \/ UplGet
    \/ UplGetTimeout
    \/ UplSkip
    \/ UplUpload
    \/ UplMark
    \/ UplAck

\* a store seeded by an earlier run and a single start of the program ahead
InitLive ==
    /\ prompts = 1..PipePrompts
    /\ db = seed_database(<<>>, Identity(PipePrompts))
    /\ runsLeft = 1
    /\ uploads = [i \in 1..PipePrompts |-> 0]
    /\ InitMemory
    /\ NoCallers

\* both worker threads keep being scheduled and every collaborator call returns;
\* Ctrl-C and a kill may or may not happen
SpecLive == InitLive /\ [][Next]_vars /\ WF_vars(ProducerStep) /\ WF_vars(ConsumerStep)

\* main.py:461-507  a step of the legacy loop
LegacyStep ==
    \/ LegacyClaim
    \/ LegacyMark
    \/ LegacyGenSucceed
    \/ LegacyGenFail
    \/ LegacySkip
    \/ LegacyUpload
    \/ LegacyComplete
    \/ LegacyNext

\* main.py:363-438 and 441-511  a run without Ctrl-C and without a kill
NextRun ==
    \/ StartProcess
    \/ Seed
    \/ Reconcile
    \/ StartThreads
    \/ JoinGenerator
    \/ JoinQueue
    \/ SetShutdown
    \/ JoinUploader
    \/ Exit
    \/ LegacyReset
    \/ ProducerStep
    \/ ConsumerStep
    \/ LegacyStep

\* the threads keep being scheduled, and no generation fails forever: a
\* generation that is attempted again and again eventually succeeds
SpecRun ==
    /\ InitLive
    /\ [][NextRun]_vars
    /\ WF_vars(ProducerStep)
    /\ WF_vars(ConsumerStep)
    /\ WF_vars(LegacyStep)
    /\ SF_vars(GenSucceed)
    /\ SF_vars(LegacyGenSucceed)

\* ------------------------------------------- a run in which one job always fails

\* main.py:296  generate_image_only(prompt_text, image_id) raises for this job on
\* every attempt and returns for every other job
GenerationFails(id) == id = FailingJob

FailGenSucceed == ~GenerationFails(genId) /\ GenSucceed
FailGenFail == GenerationFails(genId) /\ GenFail
FailLegacyGenSucceed == ~GenerationFails(genId) /\ LegacyGenSucceed
FailLegacyGenFail == GenerationFails(genId) /\ LegacyGenFail

\* main.py:378-403 and 449-476  the main thread up to the start of the workers or
\* of the legacy loop; it then waits in gen_thread.join() (405) while the producer runs
FailCoordinator == StartProcess \/ Seed \/ Reconcile \/ StartThreads \/ LegacyReset

\* main.py:274-318  generator_thread
FailProducer ==
    \/ GenCheck
    \/ GenClaim
    \/ GenMark
    \/ FailGenSucceed
    \/ FailGenFail
    \/ GenMarkGenerated
    \/ GenPut

\* main.py:331-360  uploader_thread
FailConsumer == UplCheck \/ UplGet \/ UplGetTimeout \/ UplSkip \/ UplUpload \/ UplMark \/ UplAck

\* main.py:462-507  the legacy loop
FailLegacyLoop ==
    \/ LegacyClaim
    \/ LegacyMark
    \/ FailLegacyGenSucceed
    \/ FailLegacyGenFail
    \/ LegacySkip
    \/ LegacyUpload
    \/ LegacyComplete
    \/ LegacyNext

\* no Ctrl-C and no kill: a run that is not cancelled
NextFail == FailCoordinator \/ FailProducer \/ FailConsumer \/ FailLegacyLoop

\* every thread that can take a step eventually takes one
FairThreads ==
    /\ WF_vars(FailCoordinator)
    /\ WF_vars(FailProducer)
    /\ WF_vars(FailConsumer)
    /\ WF_vars(FailLegacyLoop)

SpecFail == InitPipe /\ [][NextFail]_vars /\ WF_vars(NextFail) /\ FairThreads

\* ----------------------------------- generation seen at the level of wait_for_images

\* the generation collaborator never sends execution_success / execution_complete
\* for the task of this job; it does for every other job
NeverCompletes(id) == id = FailingJob

\* main.py:216-225  connect the websocket, send the prompt, enter wait_for_images
\* with start = time.time()
WaitEnter ==
    /\ Threaded
    /\ genPc = "g_gen"
    /\ genPc' = "w_top"
    /\ UNCHANGED <<StoreVars, proc, runsLeft, arkiv, mainPc, ClaimVars, genId, UplVars,
                   QueueVars, shutdown, HistVars>>

\* main.py:127  time.time() - start > timeout is false: go on to ws.recv()
WaitNotYet ==
    /\ Threaded
    /\ genPc = "w_top"
    /\ genPc' = "w_recv"
    /\ UNCHANGED <<StoreVars, proc, runsLeft, arkiv, mainPc, ClaimVars, genId, UplVars,
                   QueueVars, shutdown, HistVars>>

\* main.py:127-128  the timeout has passed when the test runs: TimeoutError, which
\* leaves generate_image_only and reaches the handler of main.py:315-317
WaitTimedOut ==
    /\ Threaded
    /\ genPc = "w_top"
    /\ db' = GenerationFailed(db, genId)
    /\ genPc' = "g_check"
    /\ UNCHANGED <<prompts, proc, runsLeft, arkiv, mainPc, ClaimVars, genId, UplVars,
                   QueueVars, shutdown, HistVars>>

\* main.py:130-151  ws.recv() returns a message that does not end the wait (empty,
\* a status or progress message, another prompt's message): back to the test
WaitRecv ==
    /\ Threaded
    /\ genPc = "w_recv"
    /\ genPc' = "w_top"
    /\ UNCHANGED <<StoreVars, proc, runsLeft, arkiv, mainPc, ClaimVars, genId, UplVars,
                   QueueVars, shutdown, HistVars>>

\* main.py:148-158 and 229-236  ws.recv() returns the completion message of this
\* prompt: break, download the image, return the path
WaitCompleted ==
    /\ Threaded
    /\ genPc = "w_recv"
    /\ ~NeverCompletes(genId)
    /\ produced' = produced \cup {genId}
    /\ genPc' = "g_markgen"
    /\ UNCHANGED <<StoreVars, proc, runsLeft, arkiv, mainPc, ClaimVars, genId, UplVars,
                   QueueVars, shutdown, lastReset, startGen, handed, tried, uploads,
                   refBefore, seeded>>

\* the same wait, called from generate_image in the legacy loop (main.py:242)
LegacyWaitEnter ==
    /\ Legacy
    /\ mainPc = "l_gen"
    /\ mainPc' = "lw_top"
    /\ UNCHANGED <<StoreVars, proc, runsLeft, arkiv, ClaimVars, GenVars, UplVars, QueueVars,
                   shutdown, HistVars>>

LegacyWaitNotYet ==
    /\ Legacy
    /\ mainPc = "lw_top"
    /\ mainPc' = "lw_recv"
    /\ UNCHANGED <<StoreVars, proc, runsLeft, arkiv, ClaimVars, GenVars, UplVars, QueueVars,
                   shutdown, HistVars>>

\* main.py:127-128 raising, caught at 499-501: mark_failed(prompt_id)
LegacyWaitTimedOut ==
    /\ Legacy
    /\ mainPc = "lw_top"
    /\ db' = mark_failed(db, genId)
    /\ mainPc' = "l_claim"
    /\ UNCHANGED <<prompts, proc, runsLeft, arkiv, ClaimVars, GenVars, UplVars, QueueVars,
                   shutdown, HistVars>>

LegacyWaitRecv ==
    /\ Legacy
    /\ mainPc = "lw_recv"
    /\ mainPc' = "lw_top"
    /\ UNCHANGED <<StoreVars, proc, runsLeft, arkiv, ClaimVars, GenVars, UplVars, QueueVars,
                   shutdown, HistVars>>

LegacyWaitCompleted ==
    /\ Legacy
    /\ mainPc = "lw_recv"
    /\ ~NeverCompletes(genId)
    /\ mainPc' = "l_upload"
    /\ UNCHANGED <<StoreVars, proc, runsLeft, arkiv, ClaimVars, GenVars, UplVars, QueueVars,
                   shutdown, HistVars>>

\* main.py:274-318  generator_thread, its generation call opened up
WaitProducer ==
    \/ GenCheck
    \/ GenClaim
    \/ GenMark
    \/ WaitEnter
    \/ WaitNotYet
    \/ WaitTimedOut
    \/ WaitCompleted
    \/ GenMarkGenerated
    \/ GenPut

\* main.py:461-507  the legacy loop, its generation call opened up
WaitLegacyLoop ==
    \/ LegacyClaim
    \/ LegacyMark
    \/ LegacyWaitEnter
    \/ LegacyWaitNotYet
    \/ LegacyWaitTimedOut
    \/ LegacyWaitCompleted
    \/ LegacySkip
    \/ LegacyUpload
    \/ LegacyComplete
    \/ LegacyNext

\* what the collaborator may send, or not, while a completion is not due
WaitMessages == WaitRecv \/ LegacyWaitRecv

NextWait == FailCoordinator \/ WaitProducer \/ FailConsumer \/ WaitLegacyLoop \/ WaitMessages

\* the threads keep being scheduled, a completion that is due arrives, and time
\* passes: a timeout test that is run again and again eventually finds the
\* timeout exceeded. Messages that do not end the wait may come or not.
SpecWait ==
    /\ InitLive
    /\ [][NextWait]_vars
    /\ WF_vars(FailCoordinator)
    /\ WF_vars(WaitProducer)
    /\ WF_vars(FailConsumer)
    /\ WF_vars(WaitLegacyLoop)
    /\ SF_vars(WaitTimedOut)
    /\ SF_vars(LegacyWaitTimedOut)

\* ------------------------------------------------------------------ claims

ReconcileStep == mainPc = "reconcile" /\ mainPc' \in {"start", "l_claim"}

\* C1: restart-safe upload retry. When an uncancelled two-stage run has ended,
\* every job that was in status generated when the run reconciled has been handed
\* to the consumer in that run, and if the upload collaborator works in that run
\* the job is completed with its artifact_ref unchanged.
C1_RestartSafeUpload ==
    (proc = "threaded" /\ mainPc = "final") =>
        \A i \in startGen :
            /\ i \in handed
            /\ arkiv = "ok" => (db[i].status = "completed" /\ db[i].filename = OutPath(i))

\* C2: at-most-one claim. Two callers that run the claim operation (select the
\* lowest-id pending job, then mark it in_progress) concurrently never both hold
\* the same job id.
C2_AtMostOneClaim ==
    \A c1, c2 \in Callers :
        (c1 # c2 /\ callPc[c1] = "holding" /\ callPc[c2] = "holding")
            => callSel[c1] # callSel[c2]

C4_RecoveryInvariant ==
    [][ReconcileStep =>
          /\ \A i \in Ids(db) : db[i].status = "in_progress" => db'[i].status = "pending"
          /\ \A i \in Ids(db') : db'[i].status # "in_progress"]_vars

\* C4 witness: reconcile has just reset a job that a dead process left in_progress.
C4_Witness ==
    /\ mainPc \in {"start", "l_claim"}
    /\ lastReset.gen_reset > 0
    /\ \E i \in Ids(db) : db[i].status = "pending"

\* C5: reconcile frame condition. Reconcile changes no field of a job that is
\* pending, generated or completed, adds and removes no job, and the pending-upload
\* count reset_interrupted reports is the number of jobs in status generated.
C5_ReconcileFrame ==
    [][ReconcileStep =>
          /\ Len(db') = Len(db)
          /\ \A i \in Ids(db) : db[i].status # "in_progress" => db'[i] = db[i]
          /\ proc = "threaded" =>
                 lastReset'.pending_uploads = CountStatus(db, "generated")]_vars

\* C5 witness: reset_interrupted has just run on a store that held an interrupted
\* job and a job waiting for upload.
C5_Witness ==
    /\ proc = "threaded"
    /\ mainPc = "start"
    /\ lastReset.gen_reset > 0
    /\ lastReset.pending_uploads > 0
    /\ \E i \in Ids(db) : db[i].status = "generated" /\ db[i].filename = OutPath(i)

\* C6: idempotent seeding. A second seed with the same payload set leaves the
\* table as it was: the same number of rows, no second job for a payload, and the
\* id, status and artifact_ref of every job unchanged.
C6_IdempotentSeed ==
    [][(mainPc = "seed" /\ mainPc' = "reconcile" /\ seeded >= 1) => db' = db]_vars

\* C6 witness: a second seed has returned on a store holding a completed job and a
\* job that is generated.
C6_Witness ==
    /\ seeded = 2
    /\ mainPc = "reconcile"
    /\ Len(db) = Cardinality(prompts)
    /\ \E i \in Ids(db) : db[i].status = "completed"
    /\ \E i \in Ids(db) : db[i].status \in {"generated", "in_progress"}

\* C7: artifact-preserving retry. When the upload fails for a dequeued job, the
\* consumer leaves the job in status generated with the artifact_ref it had before
\* the upload attempt.
C7_ArtifactPreservingRetry ==
    [][(uplPc = "u_mark" /\ uplRes = "raise" /\ uplPc' = "u_ack") =>
          /\ refBefore # NoFile
          /\ db'[uplItem.prompt_id].status = "generated"
          /\ db'[uplItem.prompt_id].filename = refBefore]_vars

\* C7 witness: the consumer has handled a failed upload.
C7_Witness ==
    /\ uplPc = "u_ack"
    /\ uplRes = "raise"
    /\ db[uplItem.prompt_id].status = "generated"
    /\ db[uplItem.prompt_id].filename = refBefore

\* artifacts generated in this run that the consumer has not dequeued
InFlight == Cardinality(produced \ handed)

\* C8: backpressure bound. In a two-stage run the queue holds at most
\* queue_capacity items and at most queue_capacity + 1 generated artifacts are not
\* yet dequeued.
C8_BackpressureBound ==
    proc = "threaded" =>
        /\ Len(queue) <= UPLOAD_QUEUE_SIZE
        /\ InFlight <= UPLOAD_QUEUE_SIZE + 1

\* C8 witness: the queue is full and one more artifact is generated.
C8_Witness ==
    /\ proc = "threaded"
    /\ Len(queue) = UPLOAD_QUEUE_SIZE
    /\ InFlight = UPLOAD_QUEUE_SIZE + 1

\* C9: blocking hand-off. While the queue is full the producer stays in its
\* enqueue, holding its item, and only the consumer's dequeue changes the queue;
\* when the producer leaves the enqueue the item is at the tail of the queue.
C9_BlockingHandoff ==
    [][(genPc = "g_put" /\ proc' = "threaded") =>
          IF Len(queue) >= UPLOAD_QUEUE_SIZE
          THEN /\ genPc' = "g_put"
               /\ genId' = genId
               /\ queue' = queue \/ queue' = Tail(queue)
          ELSE \/ genPc' = "g_put" /\ genId' = genId
               \/ queue' = Append(queue, GeneratedImage(genId, OutPath(genId)))]_vars

\* C9 witness: the producer is blocked in its enqueue on a full queue while the
\* consumer is about to dequeue.
C9_Witness ==
    /\ genPc = "g_put"
    /\ Len(queue) = UPLOAD_QUEUE_SIZE
    /\ uplPc = "u_get"
    /\ genId \notin {queue[k].prompt_id : k \in 1..Len(queue)}

\* C10: terminal exclusivity. For every job, completed_at is set if and only if
\* the status is completed.
C10_TerminalExclusivity ==
    \A i \in Ids(db) : (db[i].completed_at # NullTime) <=> (db[i].status = "completed")

\* C11: artifact invariant. artifact_ref is non-empty for every job in status
\* generated or completed and empty for every job in status pending or in_progress.
C11_ArtifactInvariant ==
    \A i \in Ids(db) :
        (db[i].filename # NoFile) <=> (db[i].status \in {"generated", "completed"})

\* a step in which a producer runs the claim (get_next_prompt) and binds its result
ClaimStep ==
    \/ Threaded /\ genPc = "g_claim" /\ genPc' \in {"g_mark", "g_done"}
    \/ Legacy /\ mainPc = "l_claim" /\ mainPc' \in {"l_mark", "final"}

\* C12: lowest-id-first claim. Whenever the claim returns a job, the job is pending
\* and no pending job has a smaller id at that moment; it returns none exactly
\* when no job is pending.
C12_LowestIdFirst ==
    [][ClaimStep =>
          /\ (genId' = None) <=> (\A i \in Ids(db) : db[i].status # "pending")
          /\ genId' # None =>
                 /\ genId' \in Ids(db)
                 /\ db[genId'].status = "pending"
                 /\ \A j \in Ids(db) : db[j].status = "pending" => genId' <= j]_vars

\* C12 witness: the claim has returned job 1 while job 2 was pending as well.
C12_Witness ==
    /\ Threaded
    /\ genPc = "g_mark"
    /\ genId = 1
    /\ \E j \in Ids(db) : j > genId /\ db[j].status = "pending"


\* C13: startup-fatal failure. In a run whose upload collaborator is unavailable
\* from startup, no worker starts and no job's status changes.
C13_StartupFatal ==
    [][(proc # "none" /\ arkiv = "down" /\ seeded' = seeded /\ Ids(db') = Ids(db)) =>
          /\ genPc' = "off"
          /\ uplPc' = "off"
          /\ \A i \in Ids(db) : db'[i].status = db[i].status]_vars


\* C14: single-stage mode. The inline upload, succeeding or failing, leads on to
\* mark_completed without touching the job; the job is then completed with its
\* artifact_ref set and the loop goes on to its next claim. An upload failure
\* neither requeues the job nor ends the loop.
C14_InlineUploadCompletes ==
    [][(Legacy /\ mainPc' \notin {"off", "final_int"}) =>
          /\ mainPc = "l_upload" =>
                 /\ mainPc' = "l_complete"
                 /\ db' = db
          /\ mainPc = "l_complete" =>
                 /\ mainPc' = "l_print"
                 /\ db'[genId].status = "completed"
                 /\ db'[genId].filename = OutPath(genId)
          /\ mainPc = "l_print" => mainPc' = "l_claim" /\ db' = db]_vars

\* C14 witness: the inline upload of the current job failed and the job is completed
\* with its artifact.
C14_Witness ==
    /\ Legacy
    /\ mainPc = "l_print"
    /\ genId \in tried
    /\ uploads[genId] = 0
    /\ db[genId].status = "completed"
    /\ db[genId].filename = OutPath(genId)


\* C15: drain ordering. In a run that is not cancelled the coordinator has set the
\* shutdown flag only after the producer exited and every enqueued item was
\* acknowledged: then the queue is empty and no job is pending or in_progress.
C15_DrainOrdering ==
    (proc = "threaded" /\ mainPc = "join_upl") =>
        /\ shutdown
        /\ genPc = "g_done"
        /\ unfinished = 0
        /\ queue = <<>>
        /\ uplItem = NoItem
        /\ \A i \in Ids(db) : db[i].status \notin {"pending", "in_progress"}

\* C15 witness: the flag was set at the end of an uncancelled run whose consumer
\* had received an item.
C15_Witness ==
    /\ proc = "threaded"
    /\ mainPc = "join_upl"
    /\ shutdown
    /\ handed # {}


\* the producer's two steps after a successful generation
MarkStep == Threaded /\ genPc = "g_markgen" /\ genPc' = "g_put"
EnqueueStep == Threaded /\ genPc = "g_put" /\ genPc' = "g_check"

\* C16 as stated: the producer enqueues first and marks the job generated
\* afterwards, so at the enqueue the job is still in_progress.
C16_EnqueueBeforeMark ==
    [][EnqueueStep => db[genId].status = "in_progress"]_vars

\* C16 amended: on generation success the producer first marks the job generated
\* in the store, with its artifact path, while the job is not yet on the hand-off
\* queue, and only then enqueues (job, artifact_ref), leaving the store as it is.
C16_MarkBeforeEnqueue ==
    [][/\ MarkStep =>
              /\ \A k \in 1..Len(queue) : queue[k].prompt_id # genId
              /\ genId \notin handed
              /\ queue' = queue
              /\ db'[genId].status = "generated"
              /\ db'[genId].filename = OutPath(genId)
       /\ EnqueueStep =>
              /\ db[genId].status = "generated"
              /\ db[genId].filename = OutPath(genId)
              /\ queue' = Append(queue, GeneratedImage(genId, OutPath(genId)))
              /\ db' = db]_vars

\* C16 witness: the producer has enqueued a job it had marked generated and is back
\* at its loop test.
C16_Witness ==
    /\ Threaded
    /\ genPc = "g_check"
    /\ queue # <<>>
    /\ db[queue[Len(queue)].prompt_id].status = "generated"
    /\ db[queue[Len(queue)].prompt_id].filename = queue[Len(queue)].image_path


\* C17: every item is consumed, also under cancellation. When both workers have
\* stopped, the hand-off queue is empty and every enqueued item was acknowledged.
C17_ConsumedUnderCancellation ==
    (Threaded /\ genPc = "g_done" /\ uplPc = "u_done") =>
        (queue = <<>> /\ unfinished = 0)


\* C18: generation failure handling. When the generation call fails for the claimed
\* job, that job's status becomes pending, no other job changes, and the producer
\* is back at its loop test, from which it goes on to claim unless the shutdown
\* flag is set.
C18_GenerationFailureRequeues ==
    [][/\ (Threaded /\ genPc = "g_gen" /\ genPc' \notin {"g_gen", "g_markgen", "off"}) =>
              /\ genPc' = "g_check"
              /\ db'[genId].status = "pending"
              /\ \A i \in Ids(db) \ {genId} : db'[i] = db[i]
       /\ (Threaded /\ genPc = "g_check" /\ genPc' \notin {"g_check", "off"} /\ ~shutdown) =>
              genPc' = "g_claim"]_vars

\* C18 witness: the generation of the claimed job has failed; the job is pending and
\* the producer is at its loop test.
C18_Witness ==
    /\ Threaded
    /\ genPc = "g_check"
    /\ genId # None
    /\ db[genId].status = "pending"


\* C19: a single job's failure does not stop progress. While generation of job
\* FailingJob fails on every attempt and every other generation succeeds, every
\* other pending job is eventually claimed and leaves status pending.
C19_FailureDoesNotStarve ==
    \A k \in (1..PipePrompts) \ {FailingJob} :
        (db[k].status = "pending") ~> (db[k].status # "pending")


\* C20: upload success path. For a dequeued job whose artifact is within the size
\* threshold and whose upload the collaborator accepts, the consumer marks the
\* job completed.
C20_UploadSuccessCompletes ==
    [][(/\ Threaded
        /\ arkiv = "ok"
        /\ uplPc = "u_mark"
        /\ uplRes # "skip"
        /\ uplPc' = "u_ack") => db'[uplItem.prompt_id].status = "completed"]_vars


\* C21: size precheck. When the dequeued job's artifact exceeds the size threshold
\* the consumer makes no upload call and then marks the job completed with the
\* item's artifact path.
C21_SizePrecheckCompletes ==
    [][/\ (Threaded /\ uplPc = "u_try" /\ uplRes' = "skip") =>
              /\ uplPc' = "u_mark"
              /\ tried' = tried
              /\ uploads' = uploads
              /\ db' = db
       /\ (Threaded /\ uplPc = "u_mark" /\ uplRes = "skip" /\ uplPc' \notin {"u_mark", "off"}) =>
              /\ uplPc' = "u_ack"
              /\ db'[uplItem.prompt_id].status = "completed"
              /\ db'[uplItem.prompt_id].filename = uplItem.image_path]_vars

\* C21 witness: a job whose upload was skipped, and never attempted, is completed.
C21_Witness ==
    /\ Threaded
    /\ uplPc = "u_ack"
    /\ uplRes = "skip"
    /\ uplItem.prompt_id \notin tried
    /\ db[uplItem.prompt_id].status = "completed"
    /\ db[uplItem.prompt_id].filename = uplItem.image_path


\* C22: acknowledgement. The consumer holds an item exactly between its dequeue and
\* its acknowledgement, and the queue's count of unfinished tasks (enqueues minus
\* acknowledgements) is the number of items still queued plus the one held: it is
\* never negative, and it is zero exactly when every enqueued item was processed.
C22_AcknowledgedOnce ==
    /\ unfinished = Len(queue) + (IF uplItem = NoItem THEN 0 ELSE 1)
    /\ (uplItem # NoItem) <=> (uplPc \in {"u_try", "u_mark", "u_ack"})
    /\ QueueJoined(unfinished) <=> (queue = <<>> /\ uplItem = NoItem)

\* C22 witness: the consumer has acknowledged the item it dequeued after an upload
\* that failed, and the queue's join condition holds.
C22_Witness ==
    /\ Threaded
    /\ uplPc = "u_check"
    /\ handed # {}
    /\ \E i \in handed : i \in tried /\ db[i].status = "generated"
    /\ unfinished = 0


\* C23: no regression of progress. No step takes a generated or completed job to
\* pending or in_progress, and no step changes the status of a completed job.
C23_NoRegression ==
    [][\A i \in Ids(db) :
          /\ db[i].status \in {"generated", "completed"} =>
                 db'[i].status \notin {"pending", "in_progress"}
          /\ db[i].status = "completed" => db'[i].status = "completed"]_vars


\* C24: non-preemptive cancellation of the producer. A loop test that follows the
\* setting of the shutdown flag ends the producer without a claim and without a
\* store write; a job becomes in_progress only in an iteration whose loop test
\* was passed; the producer never resumes once it has ended; and when it has
\* ended no job is left in_progress: the job in flight when the flag was set was
\* finished (generated or pending).
C24_NonPreemptiveCancel ==
    [][Threaded =>
          /\ (genPc = "g_check" /\ shutdown /\ genPc' \notin {"g_check", "off"}) =>
                 (genPc' = "g_done" /\ db' = db)
          /\ (\E i \in Ids(db) : db[i].status # "in_progress"
                                   /\ db'[i].status = "in_progress") =>
                 (genPc = "g_mark" /\ genPc' = "g_gen")
          /\ genPc = "g_done" => genPc' \in {"g_done", "off"}
          /\ genPc' = "g_done" => \A i \in Ids(db') : db'[i].status # "in_progress"]_vars

\* C24 witness: the flag is set, the producer has ended although a job is still
\* pending, and a job it generated in this run is in status generated.
C24_Witness ==
    /\ Threaded
    /\ shutdown
    /\ mainPc \in {"int_join", "final_int"}
    /\ genPc = "g_done"
    /\ \E j \in Ids(db) : db[j].status = "pending"
    /\ \E i \in produced : db[i].status = "generated"


\* C25: termination after cancellation. Once the shutdown flag is set, both worker
\* loops eventually exit (or the process is gone).
C25_TerminationAfterCancel ==
    (Threaded /\ shutdown) ~> (proc = "none" \/ (genPc = "g_done" /\ uplPc = "u_done"))

\* C25 witness: after a Ctrl-C both workers have ended, the consumer having
\* received at least as many items as the queue holds.
C25_Witness ==
    /\ Threaded
    /\ shutdown
    /\ mainPc \in {"int_join", "final_int"}
    /\ genPc = "g_done"
    /\ uplPc = "u_done"
    /\ Cardinality(handed) >= UPLOAD_QUEUE_SIZE


\* C26: producer termination. In a run without cancellation in which no generation
\* fails forever, the producer loop eventually exits; it exits only at a claim
\* that finds no pending job, and then no job is pending or in_progress.
C26_ProducerTerminates ==
    /\ [][/\ (Threaded /\ genPc # "g_done" /\ genPc' = "g_done") =>
                 /\ genPc = "g_claim"
                 /\ \A i \in Ids(db') : db'[i].status \notin {"pending", "in_progress"}
          /\ (Legacy /\ mainPc # "final" /\ mainPc' = "final") =>
                 /\ mainPc = "l_claim"
                 /\ \A i \in Ids(db') : db'[i].status \notin {"pending", "in_progress"}]_vars
    /\ (Threaded /\ genPc \notin {"off", "g_done"}) ~> (genPc = "g_done")
    /\ (Legacy /\ mainPc \notin {"seed", "reconcile", "final"}) ~> (mainPc = "final")

\* C26 witness: the producer has exited, uncancelled, after generating every job of
\* the store in this run.
C26_Witness ==
    /\ Threaded
    /\ ~shutdown
    /\ genPc = "g_done"
    /\ produced = Ids(db)
    /\ Cardinality(produced) = PipePrompts


\* C27: generation timeout. If the collaborator never sends the completion signal
\* for the submitted task, the wait eventually ends: the job is pending again and
\* the producer is back at its loop test.
C27_GenerationTimeout ==
    (Threaded /\ genPc \in {"w_top", "w_recv"} /\ NeverCompletes(genId)) ~>
        (genPc = "g_check" /\ genId # None /\ db[genId].status = "pending")


\* C28: queue/store consistency. In a two-stage run every item on the hand-off
\* queue, and the item the consumer holds until it has finalized it, refers to a
\* job whose status is generated and whose stored artifact_ref is the item's path.
C28_QueueStoreConsistency ==
    Threaded =>
        /\ \A k \in 1..Len(queue) :
               /\ queue[k].prompt_id \in Ids(db)
               /\ db[queue[k].prompt_id].status = "generated"
               /\ db[queue[k].prompt_id].filename = queue[k].image_path
        /\ uplPc \in {"u_try", "u_mark"} =>
               /\ db[uplItem.prompt_id].status = "generated"
               /\ db[uplItem.prompt_id].filename = uplItem.image_path

\* C28 witness: two items are queued while the consumer holds a third.
C28_Witness ==
    /\ Threaded
    /\ Len(queue) >= 2
    /\ uplPc = "u_mark"
    /\ db[uplItem.prompt_id].status = "generated"


\* the producer of the running process is between mark_in_progress and the write
\* that ends its work on job i
Processing(i) ==
    /\ genId = i
    /\ \/ Threaded /\ genPc \in {"g_gen", "g_markgen"}
       \/ Legacy /\ mainPc \in {"l_gen", "l_upload", "l_complete"}

\* C29: single in-flight generation. From the end of reconcile to the end of the
\* run, a job is in_progress only while the producer is processing it, so at most
\* one job is in_progress.
C29_SingleInFlight ==
    (proc # "none" /\ mainPc \notin {"off", "seed", "reconcile"}) =>
        /\ \A i \in Ids(db) : db[i].status = "in_progress" => Processing(i)
        /\ Cardinality({i \in Ids(db) : db[i].status = "in_progress"}) <= 1

\* C29 witness: in a second run the producer is generating job 2, the only job
\* in_progress, while job 1 is still pending or was left behind by the first run.
C29_Witness ==
    /\ Threaded
    /\ seeded >= 2
    /\ genPc = "g_gen"
    /\ {i \in Ids(db) : db[i].status = "in_progress"} = {genId}


\* the ids of the jobs on the hand-off queue
QueuedIds(q) == {q[k].prompt_id : k \in 1..Len(q)}

\* C30: hand-off order. Within one run the producer enqueues a job whose id is
\* larger than the id of every job enqueued before (those still queued and those
\* already handed to the consumer), so no job is enqueued twice; the consumer
\* dequeues the oldest item, which it never received before and whose id is
\* larger than every id it received and smaller than every id still queued.
C30_HandOffOrder ==
    [][Threaded =>
          /\ (genPc = "g_put" /\ genPc' = "g_check") =>
                 /\ queue' = Append(queue, GeneratedImage(genId, OutPath(genId)))
                 /\ \A j \in handed \cup QueuedIds(queue) : j < genId
          /\ (uplPc = "u_get" /\ uplPc' = "u_try") =>
                 /\ uplItem' = Head(queue)
                 /\ queue' = Tail(queue)
                 /\ uplItem'.prompt_id \notin handed
                 /\ \A j \in handed : j < uplItem'.prompt_id
                 /\ \A j \in QueuedIds(queue') : uplItem'.prompt_id < j]_vars

\* C30 witness: the consumer has received its third item while two more are queued.
C30_Witness ==
    /\ Threaded
    /\ uplPc = "u_try"
    /\ Cardinality(handed) >= 3
    /\ Len(queue) >= 2
    /\ \A j \in handed \ {uplItem.prompt_id} : j < uplItem.prompt_id

====
